---- MODULE Spec2Model ----
(***************************************************************************)
(* Scenario resolution engine of chain_of_thoughts/structured_preprocessing *)
(* (recursive_merge, ensure_required_fields, the global overlays,           *)
(* process_test_step, process_scenario and main).                           *)
(*                                                                          *)
(* Python dictionaries are objects: a name holds a reference, an assignment *)
(* d[k] = v changes the object every holder of the reference sees, and      *)
(* copy.deepcopy allocates new objects.  The model keeps that: `heap` is    *)
(* the store of dictionary objects, a value is a scalar or a reference into *)
(* the heap, and every function of the source that writes to a dictionary   *)
(* is an operator that takes the heap and returns the changed heap.         *)
(* Key order inside a dictionary is not modelled.                           *)
(***************************************************************************)
EXTENDS Integers, Sequences, FiniteSets, TLC

\* ------------------------------------------------------------------ bounds
MaxSteps == 3     \* longest scenario (number of steps) that is loaded
MaxRuns == 2      \* process_scenario is run this many times on one input
MaxArgumentSteps == 2   \* steps of a scenario whose objects are merged pairwise

\* ------------------------------------------------------------------ values
\* A Python value: a string, None, a reference to a dict object, or the
\* marker for "key not present" that dict.get reports through its default.
Str(x) == [kind |-> "str", s |-> x, ref |-> 0]
None == [kind |-> "none", s |-> "", ref |-> 0]
Absent == [kind |-> "absent", s |-> "", ref |-> 0]
Ref(a) == [kind |-> "dict", s |-> "", ref |-> a]

\* The placeholder the payload policy writes and tests for.
PLACEHOLDER == Str("<value>")

\* isinstance(v, dict)
IsDict(v) == v.kind = "dict"

\* A dict object is a function from its keys to values; {} is EmptyDict.
EmptyDict == [k \in {} |-> None]

\* d[k] = v on a dict value
DictSet(d, k, v) == [x \in (DOMAIN d) \cup {k} |-> IF x = k THEN v ELSE d[x]]

\* d.get(k, Absent)
DictGet(d, k) == IF k \in DOMAIN d THEN d[k] ELSE Absent

\* A new dict object on the heap; the result carries the heap and the reference.
Alloc(h, d) == [h |-> Append(h, d), v |-> Ref(Len(h) + 1)]

\* obj[k] = v for the object at reference r: visible through every alias of r.
HeapSet(h, r, k, v) == [h EXCEPT ![r.ref] = DictSet(h[r.ref], k, v)]

\* Python truthiness of a value: None, "" and {} are falsy.
Truthy(h, v) ==
    CASE v.kind = "str" -> v.s # ""
      [] v.kind = "dict" -> DOMAIN h[v.ref] # {}
      [] OTHER -> FALSE

\* x.get(key, {}) or {}  :  the value itself when truthy, else a fresh {}.
OrEmptyDict(h, v) == IF Truthy(h, v) THEN [h |-> h, v |-> v] ELSE Alloc(h, EmptyDict)

\* x.get(key, {})  :  the value of the key, or a fresh {} when the key is missing.
OrAbsentDict(h, v) == IF v = Absent THEN Alloc(h, EmptyDict) ELSE [h |-> h, v |-> v]

\* name = <statement>, followed by the statements after it: Python runs the
\* statement first, and what follows sees its result under the name.
Bind(value, Rest(_)) == CASE Len(<<value>>) = 1 -> Rest(value)

\* ------------------------------------------------------------ copy.deepcopy
RECURSIVE deepcopy(_, _)
RECURSIVE deepcopy_items(_, _, _, _)

\* copy.copy in place of copy.deepcopy: the items are copied as they are, a
\* nested dict stays the object of the original.
deepcopy_items_shallow(h, src, keys, acc) == [h |-> h, d |-> src]

\* Copies the items of one dict, copying every nested dict too.
deepcopy_items(h, src, keys, acc) ==
    IF keys = {} THEN [h |-> h, d |-> acc]
    ELSE LET k == CHOOSE x \in keys : TRUE
         IN Bind(deepcopy(h, src[k]), LAMBDA c :
                 deepcopy_items(c.h, src, keys \ {k}, DictSet(acc, k, c.v)))

\* A copy that hands back the object it was given: `result = default`.
deepcopy_same_object(h, v) == [h |-> h, v |-> v]

\* copy.deepcopy(v): scalars are returned as they are, a dict becomes a new
\* object whose nested dicts are new objects as well.
deepcopy(h, v) ==
    IF ~IsDict(v) THEN [h |-> h, v |-> v]
    ELSE Bind(deepcopy_items(h, h[v.ref], DOMAIN h[v.ref], EmptyDict), LAMBDA c :
              Alloc(c.h, c.d))

\* ---------------------------------------------------------- recursive_merge
RECURSIVE recursive_merge(_, _, _)
RECURSIVE merge_items(_, _, _, _)

\* recursive_merge that lays override over `default` itself and copies the
\* outcome, instead of copying first.
recursive_merge_in_place(h, default, override) ==
    LET ov == IF override.kind = "none" THEN EmptyDict ELSE h[override.ref]
    IN Bind(merge_items(h, default, ov, DOMAIN ov), LAMBDA m : deepcopy(m.h, m.v))

\* The loop as dict.update would do it: every key of override replaces the
\* value in result, mappings included.
merge_items_replace(h, result, ov, keys) ==
    IF keys = {} THEN [h |-> h, v |-> result]
    ELSE LET key == CHOOSE x \in keys : TRUE
         IN merge_items(HeapSet(h, result, key, ov[key]), result, ov, keys \ {key})

\* The loop of recursive_merge over override.items(); result is the copy.
merge_items(h, result, ov, keys) ==
    IF keys = {} THEN [h |-> h, v |-> result]
    ELSE LET key == CHOOSE x \in keys : TRUE
             value == ov[key]
             res == h[result.ref]
         IN IF key \in DOMAIN res /\ IsDict(res[key]) /\ IsDict(value)
            THEN Bind(recursive_merge(h, res[key], value), LAMBDA sub :
                      merge_items(HeapSet(sub.h, result, key, sub.v), result, ov, keys \ {key}))
            ELSE merge_items(HeapSet(h, result, key, value), result, ov, keys \ {key})

\* recursive_merge that answers a None override with `return default`.
recursive_merge_none_returns_default(h, default, override) ==
    IF override.kind = "none" THEN [h |-> h, v |-> default]
    ELSE Bind(deepcopy(h, default), LAMBDA result :
              merge_items(result.h, result.v, h[override.ref], DOMAIN h[override.ref]))

\* recursive_merge(default, override): deep copy of default, then every key of
\* override laid over it; a value of override is stored by reference.
recursive_merge(h, default, override) ==
    LET ov == IF override.kind = "none" THEN EmptyDict ELSE h[override.ref]
    IN Bind(deepcopy(h, default), LAMBDA result : merge_items(result.h, result.v, ov, DOMAIN ov))

\* --------------------------------------------------- ensure_required_fields
RECURSIVE ensure_required_fields(_, _, _)

\* ensure_required_fields that returns from inside its loop: only the first
\* required name is looked at.
ensure_required_fields_first_only(h, merged_payload, required) ==
    IF required = <<>> THEN h
    ELSE IF Head(required) \notin DOMAIN h[merged_payload.ref]
         THEN HeapSet(h, merged_payload, Head(required), PLACEHOLDER)
         ELSE h

\* ensure_required_fields with `if not merged_payload.get(key)`: a required
\* key whose value is null or empty is taken for a missing one.
ensure_required_fields_fill_falsy(h, merged_payload, required) ==
    IF required = <<>> THEN h
    ELSE LET key == Head(required)
             h1 == IF ~Truthy(h, DictGet(h[merged_payload.ref], key))
                   THEN HeapSet(h, merged_payload, key, PLACEHOLDER)
                   ELSE h
         IN ensure_required_fields(h1, merged_payload, Tail(required))

\* for key in schema.get("required", []): a missing key gets "<value>".
\* merged_payload is changed in place; `required` is what is left of the list.
ensure_required_fields(h, merged_payload, required) ==
    IF required = <<>> THEN h
    ELSE LET key == Head(required)
             h1 == IF key \notin DOMAIN h[merged_payload.ref]
                   THEN HeapSet(h, merged_payload, key, PLACEHOLDER)
                   ELSE h
         IN ensure_required_fields(h1, merged_payload, Tail(required))

\* ---------------------------------------- apply_global_overrides_to_payload
RECURSIVE apply_global_overrides_to_payload_items(_, _, _, _, _)

\* The loop without the missing-or-placeholder test: a global variable that
\* is a schema property always overwrites.
apply_global_overrides_to_payload_items_always(h, merged_payload, go, properties, keys) ==
    IF keys = {} THEN h
    ELSE LET key == CHOOSE x \in keys : TRUE
             h1 == IF key \in properties THEN HeapSet(h, merged_payload, key, go[key]) ELSE h
         IN apply_global_overrides_to_payload_items(h1, merged_payload, go, properties, keys \ {key})

\* The loop without the placeholder test: a global variable is written only
\* where the payload lacks the key.
apply_global_overrides_to_payload_items_missing_only(h, merged_payload, go, properties, keys) ==
    IF keys = {} THEN h
    ELSE LET key == CHOOSE x \in keys : TRUE
             h1 == IF key \in properties /\ key \notin DOMAIN h[merged_payload.ref]
                   THEN HeapSet(h, merged_payload, key, go[key])
                   ELSE h
         IN apply_global_overrides_to_payload_items(h1, merged_payload, go, properties, keys \ {key})

\* The loop over global_overrides.items(); changes merged_payload in place.
apply_global_overrides_to_payload_items(h, merged_payload, go, properties, keys) ==
    IF keys = {} THEN h
    ELSE LET key == CHOOSE x \in keys : TRUE
             mp == h[merged_payload.ref]
             h1 == IF key \in properties
                      /\ (key \notin DOMAIN mp \/ mp[key] = PLACEHOLDER)
                   THEN HeapSet(h, merged_payload, key, go[key])
                   ELSE h
         IN apply_global_overrides_to_payload_items(h1, merged_payload, go, properties, keys \ {key})

\* The overlay without the schema: every key of the global variables counts
\* as a property.
apply_global_overrides_to_payload_any_key(h, merged_payload, global_overrides, schema) ==
    LET go == h[global_overrides.ref]
    IN apply_global_overrides_to_payload_items(h, merged_payload, go, DOMAIN go, DOMAIN go)

\* A global variable is written only for a key of the schema's properties,
\* and only where the payload lacks the key or holds the placeholder.
apply_global_overrides_to_payload(h, merged_payload, global_overrides, schema) ==
    LET go == h[global_overrides.ref]
    IN apply_global_overrides_to_payload_items(h, merged_payload, go, DOMAIN schema.properties,
                                               DOMAIN go)

\* ---------------------------------------------------- apply_global_overrides
RECURSIVE apply_global_overrides_items(_, _, _, _)

\* The loop over global_overrides.items(); changes merged_dict in place.
apply_global_overrides_items(h, merged_dict, go, keys) ==
    IF keys = {} THEN h
    ELSE LET key == CHOOSE x \in keys : TRUE
             md == h[merged_dict.ref]
             h1 == IF key \notin DOMAIN md \/ md[key] = PLACEHOLDER
                   THEN HeapSet(h, merged_dict, key, go[key])
                   ELSE h
         IN apply_global_overrides_items(h1, merged_dict, go, keys \ {key})

\* The fill-only overlay: a global value is written where merged_dict lacks
\* the key or holds the placeholder.  No caller in the repository.
apply_global_overrides(h, merged_dict, global_overrides) ==
    LET go == IF global_overrides.kind = "none" THEN EmptyDict ELSE h[global_overrides.ref]
    IN [h |-> apply_global_overrides_items(h, merged_dict, go, DOMAIN go), v |-> merged_dict]

\* ---------------------------------------------- extract_default_query_params
RECURSIVE extract_default_query_params_items(_, _)

\* The loop without the test of the parameter's location: a header or path
\* parameter with a schema default is collected as well.
extract_default_query_params_items_any_location(parameters, defaults) ==
    IF parameters = <<>> THEN defaults
    ELSE LET param == Head(parameters)
             d1 == IF param.default # Absent
                   THEN DictSet(defaults, param.name, param.default)
                   ELSE defaults
         IN extract_default_query_params_items(Tail(parameters), d1)

\* The loop over the parameters list, building the defaults dict.
extract_default_query_params_items(parameters, defaults) ==
    IF parameters = <<>> THEN defaults
    ELSE LET param == Head(parameters)
             d1 == IF param.in = "query" /\ param.default # Absent
                   THEN DictSet(defaults, param.name, param.default)
                   ELSE defaults
         IN extract_default_query_params_items(Tail(parameters), d1)

\* A new dict name -> schema default of the query parameters that have one.
extract_default_query_params(h, parameters) ==
    Alloc(h, extract_default_query_params_items(parameters, EmptyDict))

\* ---------------------------------------------------------- extract_base_url
\* servers[0].get("url") without the "" default: a server entry with no url
\* yields nothing.
extract_base_url_no_default(spec) ==
    IF spec.servers # <<>> THEN spec.servers[1].url ELSE Str("")

\* servers[0].get("url", "") when the spec has servers, else "".
extract_base_url(spec) ==
    IF spec.servers # <<>>
    THEN IF spec.servers[1].url = Absent THEN Str("") ELSE spec.servers[1].url
    ELSE Str("")

\* ------------------------------------------------------ str.lower, str.upper
\* Defined on the method names the inputs hold.
Lower(m) ==
    CASE m \in {"POST", "post", "Post"} -> "post"
      [] m \in {"get", "GET"} -> "get"
      [] OTHER -> "delete"

\* The method recorded as the step wrote it, without .upper().
Upper_as_written(m) == m

Upper(m) ==
    CASE m \in {"POST", "post", "Post"} -> "POST"
      [] m \in {"get", "GET"} -> "GET"
      [] OTHER -> "DELETE"

\* ------------------------------------------------------ get_endpoint_details
\* The schema the code falls back to when the operation declares none: {}.
NoSchema == [default |-> Absent, required |-> <<>>, properties |-> <<>>]

\* An operation with no key at all (a falsy dict).
EmptyOp ==
    [tags |-> [has |-> FALSE, list |-> <<>>],
     summary |-> Absent, description |-> Absent, operationId |-> Absent,
     default_headers |-> Absent,
     requestBody |-> [has |-> FALSE, json |-> FALSE, schema |-> NoSchema],
     parameters |-> [has |-> FALSE, list |-> <<>>],
     responses |-> Absent]

\* bool(method_details): a dict is truthy when it has at least one key.
OpTruthy(op) ==
    \/ op.tags.has
    \/ op.summary # Absent
    \/ op.description # Absent
    \/ op.operationId # Absent
    \/ op.responses # Absent
    \/ op.default_headers # Absent
    \/ op.requestBody.has
    \/ op.parameters.has

\* The exit status of sys.exit(1) in get_endpoint_details.
LookupExitStatus == 1

\* The lookup with .get(method.lower(), {}) and no test of the outcome: an
\* undeclared method yields an empty operation.
get_endpoint_details_any_method(spec, endpoint, method) ==
    LET failed == [ok |-> FALSE, op |-> EmptyOp]
    IN IF endpoint.kind # "str" \/ endpoint.s \notin DOMAIN spec.paths THEN failed
       ELSE LET endpoint_details == spec.paths[endpoint.s]
            IN IF DOMAIN endpoint_details = {} THEN failed
               ELSE IF method.kind # "str" THEN failed
               ELSE IF Lower(method.s) \notin DOMAIN endpoint_details
                    THEN [ok |-> TRUE, op |-> EmptyOp]
               ELSE [ok |-> TRUE, op |-> endpoint_details[Lower(method.s)]]

\* paths.get(endpoint), then .get(method.lower()); a missing or falsy entry
\* raises ValueError, which the function's own handler turns into sys.exit(1).
\* ok = FALSE stands for that exit.
get_endpoint_details(spec, endpoint, method) ==
    LET failed == [ok |-> FALSE, op |-> EmptyOp]
    IN IF endpoint.kind # "str" \/ endpoint.s \notin DOMAIN spec.paths THEN failed
       ELSE LET endpoint_details == spec.paths[endpoint.s]
            IN IF DOMAIN endpoint_details = {} THEN failed
               ELSE IF method.kind # "str" THEN failed
               ELSE IF Lower(method.s) \notin DOMAIN endpoint_details THEN failed
               ELSE IF ~OpTruthy(endpoint_details[Lower(method.s)]) THEN failed
               ELSE [ok |-> TRUE, op |-> endpoint_details[Lower(method.s)]]

\* --------------------------------------------------------- process_test_step
\* step.get("method", "POST")
StepMethod(step) == IF step.method = Absent THEN Str("POST") ELSE step.method

\* static_details.get("default_headers", {}): no standard headers.
DefaultHeaders_none(h, op) ==
    IF op.default_headers = Absent THEN Alloc(h, EmptyDict)
    ELSE [h |-> h, v |-> op.default_headers]

\* The standard headers as a base layer under the operation's own
\* default_headers, instead of a fallback for an operation without the field.
DefaultHeaders_combined(h, op) ==
    IF op.default_headers = Absent
    THEN Alloc(h, ("Content-Type" :> Str("application/json"))
                  @@ ("Accept" :> Str("application/json")))
    ELSE Alloc(h, h[op.default_headers.ref]
                  @@ ("Content-Type" :> Str("application/json"))
                  @@ ("Accept" :> Str("application/json")))

\* static_details.get("default_headers", {...}): the operation's own dict, or
\* a new dict holding the two standard headers.
DefaultHeaders(h, op) ==
    IF op.default_headers = Absent
    THEN Alloc(h, ("Content-Type" :> Str("application/json"))
                  @@ ("Accept" :> Str("application/json")))
    ELSE [h |-> h, v |-> op.default_headers]

\* The schema of whatever content the request body declares, application/json
\* or not.
JsonSchema_any_content(op) ==
    IF op.requestBody.has THEN op.requestBody.schema ELSE NoSchema

\* requestBody -> content -> application/json -> schema, {} at any missing
\* link and for a falsy schema.
JsonSchema(op) ==
    IF op.requestBody.has /\ op.requestBody.json THEN op.requestBody.schema ELSE NoSchema

\* A default payload collected from the `default` of every property, under
\* the schema's top-level default.
DefaultPayload_collects_properties(h, schema) ==
    LET declared == {p \in DOMAIN schema.properties : schema.properties[p] # Absent}
        top == IF schema.default = Absent THEN EmptyDict ELSE h[schema.default.ref]
    IN Alloc(h, top @@ [p \in declared |-> schema.properties[p]])

\* schema.get("default", {}) if schema else {}
DefaultPayload(h, schema) ==
    IF schema.default = Absent THEN Alloc(h, EmptyDict) ELSE [h |-> h, v |-> schema.default]

\* The path merge with its arguments exchanged: the global map on top.
MergedPathParams_global_on_top(h, global_path_params_override, dynamic_path_params) ==
    recursive_merge(h, dynamic_path_params, global_path_params_override)

\* The path merge without the global map: a copy of the step's own map.
MergedPathParams_step_only(h, global_path_params_override, dynamic_path_params) ==
    recursive_merge(h, dynamic_path_params, None)

\* merged_path_params: the global map is the base, the step's map lies over it.
MergedPathParams(h, global_path_params_override, dynamic_path_params) ==
    recursive_merge(h, global_path_params_override, dynamic_path_params)

\* The payload chain with the global variables as a layer between the schema
\* default and the step.
MergedPayload_globals_over_defaults(h, default_payload, dynamic_payload, global_vars, schema) ==
    Bind(recursive_merge(h, default_payload, global_vars), LAMBDA d :
    Bind(recursive_merge(d.h, d.v, dynamic_payload), LAMBDA m :
    Bind(ensure_required_fields(m.h, m.v, schema.required), LAMBDA h1 :
         [h |-> h1, v |-> m.v])))

\* The payload chain with the required-field fill done on the schema default
\* itself, before the step is laid over it.
MergedPayload_fill_defaults(h, default_payload, dynamic_payload, global_vars, schema) ==
    Bind(ensure_required_fields(h, default_payload, schema.required), LAMBDA h1 :
    Bind(recursive_merge(h1, default_payload, dynamic_payload), LAMBDA m :
    Bind(apply_global_overrides_to_payload(m.h, m.v, global_vars, schema), LAMBDA h2 :
         [h |-> h2, v |-> m.v])))

\* merged_payload: defaults, then the step, then the required-field fill,
\* then the conditional global overlay (the last two in place).
MergedPayload(h, default_payload, dynamic_payload, global_vars, schema) ==
    Bind(recursive_merge(h, default_payload, dynamic_payload), LAMBDA m :
    Bind(ensure_required_fields(m.h, m.v, schema.required), LAMBDA h1 :
    Bind(apply_global_overrides_to_payload(h1, m.v, global_vars, schema), LAMBDA h2 :
         [h |-> h2, v |-> m.v])))

\* The header chain with the last two layers exchanged: the step on top.
MergedHeaders_step_on_top(h, default_headers, dynamic_headers, global_headers) ==
    Bind(recursive_merge(h, default_headers, global_headers), LAMBDA m :
         recursive_merge(m.h, m.v, dynamic_headers))

\* merged_headers: defaults, then the step, then the global headers.
MergedHeaders(h, default_headers, dynamic_headers, global_headers) ==
    Bind(recursive_merge(h, default_headers, dynamic_headers), LAMBDA m :
         recursive_merge(m.h, m.v, global_headers))

\* The query chain with the fill-only overlay in place of the last merge.
MergedQueryParams_fill_only(h, default_query_params, dynamic_query_params, global_query_params) ==
    Bind(recursive_merge(h, default_query_params, dynamic_query_params), LAMBDA m :
         apply_global_overrides(m.h, m.v, global_query_params))

\* merged_query_params: defaults, then the step, then the global parameters.
MergedQueryParams(h, default_query_params, dynamic_query_params, global_query_params) ==
    Bind(recursive_merge(h, default_query_params, dynamic_query_params), LAMBDA m :
         recursive_merge(m.h, m.v, global_query_params))

\* The base URL of a step taken from the step's own base_url_override when it
\* has one.
StepBaseUrl_step_override(h, step, spec, global_base_url) ==
    IF Truthy(h, step.base_url_override) THEN step.base_url_override
    ELSE IF Truthy(h, global_base_url) THEN global_base_url
    ELSE extract_base_url(spec)

\* base_url = global_base_url if global_base_url else extract_base_url(spec):
\* the step's own base_url_override is not read here.
StepBaseUrl(h, step, spec, global_base_url) ==
    IF Truthy(h, global_base_url) THEN global_base_url ELSE extract_base_url(spec)

\* One step resolved against the spec.  ok = FALSE is the sys.exit(1) of the
\* lookup; otherwise `step` is the merged step and h the heap after the call.
process_test_step(h, step, spec, global_base_url, global_vars, global_headers, global_query_params, global_path_params_override) ==
    LET endpoint == step.endpoint
        method == StepMethod(step)
    IN
    Bind(get_endpoint_details(spec, endpoint, method), LAMBDA found :
    IF ~found.ok THEN [ok |-> FALSE, h |-> h, step |-> <<>>] ELSE
    Bind(found.op, LAMBDA static_details :
    Bind(StepBaseUrl(h, step, spec, global_base_url), LAMBDA base_url :
    Bind(DefaultHeaders(h, static_details), LAMBDA default_headers :
    Bind(JsonSchema(static_details), LAMBDA schema :
    Bind(DefaultPayload(default_headers.h, schema), LAMBDA default_payload :
    Bind(static_details.parameters.list, LAMBDA parameters :
    Bind(extract_default_query_params(default_payload.h, parameters),
         LAMBDA default_query_params :
    Bind(OrEmptyDict(default_query_params.h, step.path_params_override),
         LAMBDA dynamic_path_params :
    Bind(OrEmptyDict(dynamic_path_params.h, step.payload_override),
         LAMBDA dynamic_payload :
    Bind(OrEmptyDict(dynamic_payload.h, step.headers_override),
         LAMBDA dynamic_headers :
    Bind(OrEmptyDict(dynamic_headers.h, step.query_params_override),
         LAMBDA dynamic_query_params :
    Bind(MergedPathParams(dynamic_query_params.h, global_path_params_override,
                          dynamic_path_params.v),
         LAMBDA merged_path_params :
    Bind(MergedPayload(merged_path_params.h, default_payload.v, dynamic_payload.v,
                       global_vars, schema),
         LAMBDA merged_payload :
    Bind(MergedHeaders(merged_payload.h, default_headers.v, dynamic_headers.v,
                       global_headers),
         LAMBDA merged_headers :
    Bind(MergedQueryParams(merged_headers.h, default_query_params.v,
                           dynamic_query_params.v, global_query_params),
         LAMBDA merged_query_params :
    Bind(OrAbsentDict(merged_query_params.h, static_details.responses),
         LAMBDA responses :
    [ok |-> TRUE, h |-> responses.h,
     step |->
       [service |-> step.service,
        endpoint |-> endpoint,
        method |-> Str(Upper(method.s)),
        static_details |->
          [base_url |-> base_url,
           tags |-> static_details.tags.list,
           summary |-> IF static_details.summary = Absent THEN Str("")
                       ELSE static_details.summary,
           description |-> IF static_details.description = Absent THEN Str("")
                           ELSE static_details.description,
           operationId |-> IF static_details.operationId = Absent THEN Str("")
                           ELSE static_details.operationId,
           parameters |-> parameters,
           requestBody |-> static_details.requestBody,
           default_headers |-> default_headers.v,
           responses |-> responses.v],
        dynamic_overrides |->
          [base_url |-> IF step.base_url_override = Absent THEN Str("")
                        ELSE step.base_url_override,
           path_params |-> dynamic_path_params.v,
           payload |-> dynamic_payload.v,
           headers |-> dynamic_headers.v,
           query_params |-> dynamic_query_params.v],
        merged_path_params |-> merged_path_params.v,
        merged_payload |-> merged_payload.v,
        merged_headers |-> merged_headers.v,
        merged_query_params |-> merged_query_params.v]]
    )))))))))))))))))

\* ------------------------------------------------- documents and their loading
\* What a YAML/JSON file holds before it is parsed into objects: a mapping
\* from keys to a string, a null, or a mapping of strings.
NoStrings == [k \in {} |-> ""]
S(x) == [kind |-> "str", s |-> x, d |-> NoStrings]
N == [kind |-> "none", s |-> "", d |-> NoStrings]
M(d) == [kind |-> "dict", s |-> "", d |-> d]

\* A mapping-valued field of a document: missing, or present with its items.
NoItems == [k \in {} |-> N]
NoMap == [has |-> FALSE, m |-> NoItems]
Map(m) == [has |-> TRUE, m |-> m]

RECURSIVE load_items(_, _, _, _)

\* Parses the items of one mapping; a nested mapping becomes its own object.
load_items(h, m, keys, acc) ==
    IF keys = {} THEN [h |-> h, d |-> acc]
    ELSE LET k == CHOOSE x \in keys : TRUE
             dv == m[k]
         IN Bind(CASE dv.kind = "dict" -> Alloc(h, [x \in DOMAIN dv.d |-> Str(dv.d[x])])
                   [] dv.kind = "none" -> [h |-> h, v |-> None]
                   [] OTHER -> [h |-> h, v |-> Str(dv.s)],
                 LAMBDA c : load_items(c.h, m, keys \ {k}, DictSet(acc, k, c.v)))

\* Parses one mapping-valued field: Absent when the document lacks it.
LoadMap(h, field) ==
    IF ~field.has THEN [h |-> h, v |-> Absent]
    ELSE Bind(load_items(h, field.m, DOMAIN field.m, EmptyDict), LAMBDA c :
              Alloc(c.h, c.d))

\* Parses one step of a scenario document.
LoadStep(h, doc) ==
    Bind(LoadMap(h, doc.path_params_override), LAMBDA pp :
    Bind(LoadMap(pp.h, doc.payload_override), LAMBDA pl :
    Bind(LoadMap(pl.h, doc.headers_override), LAMBDA hd :
    Bind(LoadMap(hd.h, doc.query_params_override), LAMBDA qp :
         [h |-> qp.h,
          step |-> [doc EXCEPT !.path_params_override = pp.v,
                               !.payload_override = pl.v,
                               !.headers_override = hd.v,
                               !.query_params_override = qp.v]]))))

RECURSIVE LoadSteps(_, _, _)

\* Parses the steps list in order.
LoadSteps(h, docs, acc) ==
    IF docs = <<>> THEN [h |-> h, steps |-> acc]
    ELSE Bind(LoadStep(h, Head(docs)), LAMBDA c :
              LoadSteps(c.h, Tail(docs), Append(acc, c.step)))

\* yaml.safe_load of a scenario document.
LoadScenarioDoc(h, doc) ==
    Bind(LoadMap(h, doc.global_variables_override), LAMBDA gv :
    Bind(LoadMap(gv.h, doc.global_headers_override), LAMBDA gh :
    Bind(LoadMap(gh.h, doc.global_query_parameters_override), LAMBDA gq :
    Bind(LoadMap(gq.h, doc.global_path_params_override), LAMBDA gp :
    Bind(LoadSteps(gp.h, doc.steps, <<>>), LAMBDA st :
         [h |-> st.h,
          scenario |-> [doc EXCEPT !.global_variables_override = gv.v,
                                   !.global_headers_override = gh.v,
                                   !.global_query_parameters_override = gq.v,
                                   !.global_path_params_override = gp.v,
                                   !.steps = st.steps]])))))

\* Parses one operation of a specification document.
LoadOp(h, doc) ==
    Bind(LoadMap(h, doc.default_headers), LAMBDA dh :
    Bind(LoadMap(dh.h, doc.requestBody.schema.default), LAMBDA df :
    Bind(LoadMap(df.h, doc.responses), LAMBDA rs :
         [h |-> rs.h,
          op |-> [doc EXCEPT !.default_headers = dh.v,
                             !.requestBody.schema.default = df.v,
                             !.responses = rs.v]])))

RECURSIVE LoadPaths(_, _, _, _)

\* Parses every (path, method) entry of the paths object.
LoadPaths(h, paths, entries, acc) ==
    IF entries = {} THEN [h |-> h, paths |-> acc]
    ELSE LET e == CHOOSE x \in entries : TRUE
         IN Bind(LoadOp(h, paths[e[1]][e[2]]), LAMBDA c :
                 LoadPaths(c.h, paths, entries \ {e},
                           [acc EXCEPT ![e[1]] = DictSet(acc[e[1]], e[2], c.op)]))

\* The resolved specification as the parser hands it over.
LoadSpecDoc(h, doc) ==
    LET entries == {<<e, m>> : e \in DOMAIN doc.paths, m \in {"post", "get", "delete"}}
        declared == {x \in entries : x[2] \in DOMAIN doc.paths[x[1]]}
    IN Bind(LoadPaths(h, doc.paths, declared, [e \in DOMAIN doc.paths |-> <<>>]), LAMBDA c :
            [h |-> c.h, spec |-> [servers |-> doc.servers, paths |-> c.paths]])

\* ------------------------------------------------------------------ json.dumps
RECURSIVE dumps(_, _)

\* The serialized form of a value: one entry per leaf, keyed by the path of
\* keys that leads to it; a dict also leaves an entry at its own path, so that
\* {} differs from a missing key.  References do not appear in it.
dumps(h, v) ==
    IF ~IsDict(v) THEN {<< <<>>, v >>}
    ELSE {<< <<>>, Ref(0) >>}
         \cup UNION {{<< <<k>> \o e[1], e[2] >> : e \in dumps(h, h[v.ref][k])}
                      : k \in DOMAIN h[v.ref]}

\* The serialized form of one merged step.
DumpStep(h, ms) ==
    [service |-> ms.service, endpoint |-> ms.endpoint, method |-> ms.method,
     static_details |->
       [ms.static_details EXCEPT
          !.default_headers = dumps(h, ms.static_details.default_headers),
          !.responses = dumps(h, ms.static_details.responses),
          !.requestBody.schema.default = dumps(h, ms.static_details.requestBody.schema.default)],
     dynamic_overrides |->
       [base_url |-> ms.dynamic_overrides.base_url,
        path_params |-> dumps(h, ms.dynamic_overrides.path_params),
        payload |-> dumps(h, ms.dynamic_overrides.payload),
        headers |-> dumps(h, ms.dynamic_overrides.headers),
        query_params |-> dumps(h, ms.dynamic_overrides.query_params)],
     merged_path_params |-> dumps(h, ms.merged_path_params),
     merged_payload |-> dumps(h, ms.merged_payload),
     merged_headers |-> dumps(h, ms.merged_headers),
     merged_query_params |-> dumps(h, ms.merged_query_params)]

\* json.dumps(final_json): the plan as the caller of process_scenario sees it.
DumpPlan(h, plan) ==
    [base_url |-> plan.base_url,
     test_name |-> plan.test_name,
     description |-> plan.description,
     global_path_params_override |-> dumps(h, plan.global_path_params_override),
     global_variables_override |-> dumps(h, plan.global_variables_override),
     global_headers_override |-> dumps(h, plan.global_headers_override),
     global_query_parameters_override |-> dumps(h, plan.global_query_parameters_override),
     steps |-> [j \in 1..Len(plan.steps) |-> DumpStep(h, plan.steps[j])]]

\* --------------------------------------------------------------- the inputs
\* Payload values are JSON values and may be mappings; header, query and path
\* parameter values are the strings HTTP carries.
WIDGETS == "/widgets/{id}"

Param(name, in, default) == [name |-> name, in |-> in, default |-> default]

\* The document of an operation with no key: EmptyOp before parsing.
EmptyOpDoc ==
    [EmptyOp EXCEPT !.default_headers = NoMap, !.responses = NoMap,
                    !.requestBody.schema.default = NoMap]

\* The document of a request body without a JSON schema.
NoSchemaDoc == [default |-> NoMap, required |-> <<>>, properties |-> <<>>]

\* POST /widgets/{id} with `required: [name]`, no schema default and no
\* default_headers.
OpRequired ==
    [EmptyOpDoc EXCEPT
       !.summary = Str("Create a widget"),
       !.requestBody = [has |-> TRUE, json |-> TRUE,
                        schema |-> [default |-> NoMap,
                                    required |-> <<"name">>,
                                    properties |-> ("name" :> Str("Widget"))
                                                  @@ ("dims" :> Absent)]],
       !.parameters = [has |-> TRUE, list |-> <<Param("id", "path", Absent)>>],
       !.responses = Map("200" :> S("OK"))]

\* An operation with its own default_headers, a schema default holding a
\* nested mapping, a required name that is not a declared property (sku),
\* and parameters of every location.
OpDefaults ==
    [EmptyOpDoc EXCEPT
       !.tags = [has |-> TRUE, list |-> <<"widgets">>],
       !.operationId = Str("createWidget"),
       !.default_headers = Map(("Accept" :> S("text/xml")) @@ ("X-Trace" :> S("9"))),
       !.requestBody = [has |-> TRUE, json |-> TRUE,
                        schema |-> [default |-> Map(("name" :> S("Bolt"))
                                                    @@ ("dims" :> M("w" :> "1"))),
                                    required |-> <<"name", "sku">>,
                                    properties |-> ("name" :> Absent) @@ ("dims" :> Absent)
                                                  @@ ("size" :> Str("M"))]],
       !.parameters = [has |-> TRUE,
                       list |-> <<Param("limit", "query", Str("10")),
                                  Param("offset", "query", Absent),
                                  Param("X-Trace", "header", Str("h")),
                                  Param("id", "path", Str("7"))>>]]

\* An operation with metadata only.
OpNoBody == [EmptyOpDoc EXCEPT !.description = Str("List widgets")]

\* An operation whose request body has no application/json content; `schema`
\* is then the schema of the other content type, which the code never reads.
OpOtherContent ==
    [EmptyOpDoc EXCEPT
       !.requestBody = [has |-> TRUE, json |-> FALSE,
                        schema |-> [default |-> Map("name" :> S("Xml")),
                                    required |-> <<"name", "sku">>,
                                    properties |-> ("name" :> Absent) @@ ("sku" :> Absent)]]]

\* An operation whose application/json content declares no schema.
OpJsonNoSchema ==
    [EmptyOpDoc EXCEPT !.requestBody = [has |-> TRUE, json |-> TRUE, schema |-> NoSchemaDoc]]

\* An operation with metadata and an empty default_headers mapping.
OpNoHeaders == [OpNoBody EXCEPT !.default_headers = Map(NoItems)]

SpecDocs ==
    { [servers |-> <<[url |-> Str("http://spec")]>>,
       paths |-> (WIDGETS :> (("post" :> OpRequired) @@ ("get" :> OpNoBody)))
                 @@ ("/orders" :> ("post" :> OpOtherContent))],
      [servers |-> <<>>,
       paths |-> (WIDGETS :> ("post" :> OpDefaults))],
      [servers |-> <<[url |-> Absent]>>,
       paths |-> (WIDGETS :> ("post" :> OpNoHeaders)) @@ ("/orders" :> <<>>)],
      [servers |-> <<[url |-> Str("http://spec")]>>,
       paths |-> (WIDGETS :> (("post" :> EmptyOpDoc) @@ ("get" :> OpJsonNoSchema)))] }

\* A step document with no optional field.
BareStep ==
    [service |-> "widgets", endpoint |-> Str(WIDGETS), method |-> Absent,
     base_url_override |-> Absent,
     path_params_override |-> NoMap, payload_override |-> NoMap,
     headers_override |-> NoMap, query_params_override |-> NoMap]

StepDocs ==
    { [BareStep EXCEPT !.method = Str("POST"),
                       !.payload_override = Map("name" :> S("Bolt")),
                       !.headers_override = Map(("X-Trace" :> S("0")) @@ ("Accept" :> S("text/plain")))],
      [BareStep EXCEPT !.method = Str("post"),
                       !.base_url_override = Str("http://step"),
                       !.payload_override = Map("dims" :> M("h" :> "2")),
                       !.path_params_override = Map("propertyCode" :> S("S")),
                       !.query_params_override = Map("limit" :> S("20"))],
      [BareStep EXCEPT !.method = Str("Post"),
                       !.payload_override = Map(("name" :> S("<value>")) @@ ("sku" :> S("X"))),
                       !.path_params_override = Map("clientCode" :> S("S")),
                       !.headers_override = Map(NoItems),
                       !.query_params_override = Map("offset" :> S("5"))],
      [BareStep EXCEPT !.method = Str("GET"),
                       !.payload_override = Map(("name" :> N) @@ ("sku" :> S(""))),
                       !.path_params_override = Map(NoItems)],
      [BareStep EXCEPT !.endpoint = Str("/missing"), !.method = Str("POST")],
      [BareStep EXCEPT !.method = Str("delete")],
      [BareStep EXCEPT !.endpoint = Str("/orders")] }

\* The scenario-level fields, without the steps.
BareScenario ==
    [test_name |-> "widgets", description |-> "widget calls",
     base_url_override |-> Absent,
     global_variables_override |-> NoMap, global_headers_override |-> NoMap,
     global_query_parameters_override |-> NoMap, global_path_params_override |-> NoMap,
     steps |-> <<>>]

GlobalDocs ==
    { [BareScenario EXCEPT !.global_headers_override = Map("X-Trace" :> S("1"))],
      [BareScenario EXCEPT
         !.base_url_override = Str("http://scenario"),
         !.global_variables_override =
            Map(("name" :> S("Nut")) @@ ("sku" :> S("K")) @@ ("dims" :> S("D"))),
         !.global_headers_override = Map(("Accept" :> S("text/html")) @@ ("X-Trace" :> S("1"))),
         !.global_query_parameters_override = Map("limit" :> S("99")),
         !.global_path_params_override = Map("clientCode" :> S("G"))],
      [BareScenario EXCEPT
         !.base_url_override = Str(""),
         !.global_variables_override = Map("name" :> S("Nut")),
         !.global_headers_override = Map(NoItems),
         !.global_query_parameters_override = Map("offset" :> S("0")),
         !.global_path_params_override =
            Map(("clientCode" :> S("G")) @@ ("propertyCode" :> S("G")))] }

\* A scenario document: scenario-level fields and at most MaxSteps steps.
ScenarioDoc(g, q) == [g EXCEPT !.steps = q]

\* ------------------------------------------------------------------- state
VARIABLES
    heap,          \* the dict objects, by reference
    scenario,      \* the loaded scenario (main's `scenario`)
    spec,          \* the loaded specification (main's `openapi_spec`)
    frame,         \* the locals of process_scenario: the five global overrides
    final_output,  \* the plan under construction (process_scenario's `final_output`)
    i,             \* position of the loop over scenario["steps"], from 1
    pc,            \* where the program is
    run,           \* which call of process_scenario this is
    outputs,       \* the serialized plan of every call that returned
    exit_status,   \* <<>> while running, <<n>> after the process ended with status n
    log            \* the last error the program logged, "" if none

vars == <<heap, scenario, spec, frame, final_output, i, pc, run, outputs, exit_status, log>>

\* The exit statuses of the two loaders (sys.exit(1) in both).
LoadYamlExitStatus == 1
LoadSpecExitStatus == 1

Init ==
    /\ heap = <<>>
    /\ scenario = [steps |-> <<>>]
    /\ spec = [servers |-> <<>>, paths |-> <<>>]
    /\ frame = <<>>
    /\ final_output = [steps |-> <<>>]
    /\ i = 0
    /\ pc = "load_scenario"
    /\ run = 1
    /\ outputs = <<>>
    /\ exit_status = <<>>
    /\ log = ""

\* sys.exit(status) after logger.error(message): the process ends here.
SysExit(status, message) ==
    /\ pc' = "exited"
    /\ exit_status' = <<status>>
    /\ log' = message
    /\ UNCHANGED <<heap, scenario, spec, frame, final_output, i, run, outputs>>

\* load_yaml_file: the parsed scenario, or sys.exit(1) on any error.
load_yaml_file ==
    /\ pc = "load_scenario"
    /\ \/ \E g \in GlobalDocs, n \in 0..MaxSteps : \E q \in [1..n -> StepDocs] :
            LET c == LoadScenarioDoc(heap, ScenarioDoc(g, q))
            IN /\ heap' = c.h
               /\ scenario' = c.scenario
               /\ pc' = "load_spec"
               /\ UNCHANGED <<spec, frame, final_output, i, run, outputs, exit_status, log>>
       \/ SysExit(LoadYamlExitStatus, "Error loading YAML file")

\* load_openapi_spec: the resolved specification, or sys.exit(1) on any error.
load_openapi_spec ==
    /\ pc = "load_spec"
    /\ \/ \E doc \in SpecDocs :
            LET c == LoadSpecDoc(heap, doc)
            IN /\ heap' = c.h
               /\ spec' = c.spec
               /\ pc' = "call"
               /\ UNCHANGED <<scenario, frame, final_output, i, run, outputs, exit_status, log>>
       \/ SysExit(LoadSpecExitStatus, "Error loading OpenAPI spec")

\* process_scenario up to its loop: the global overrides are read once and
\* echoed, by reference, into the new plan.
process_scenario_begin ==
    /\ pc = "call"
    /\ LET global_base_url == IF Truthy(heap, scenario.base_url_override)
                              THEN scenario.base_url_override
                              ELSE extract_base_url(spec)
           gv == OrEmptyDict(heap, scenario.global_variables_override)
           gh == OrEmptyDict(gv.h, scenario.global_headers_override)
           gq == OrEmptyDict(gh.h, scenario.global_query_parameters_override)
           gp == OrEmptyDict(gq.h, scenario.global_path_params_override)
       IN /\ Len(<<gv, gh, gq, gp>>) >= 0
          /\ heap' = gp.h
          /\ frame' = [global_base_url |-> global_base_url,
                       global_vars |-> gv.v,
                       global_headers |-> gh.v,
                       global_query_params |-> gq.v,
                       global_path_params_override |-> gp.v]
          /\ final_output' = [base_url |-> global_base_url,
                              test_name |-> scenario.test_name,
                              description |-> scenario.description,
                              global_path_params_override |-> gp.v,
                              global_variables_override |-> gv.v,
                              global_headers_override |-> gh.v,
                              global_query_parameters_override |-> gq.v,
                              steps |-> <<>>]
    /\ i' = 1
    /\ pc' = "loop"
    /\ UNCHANGED <<scenario, spec, run, outputs, exit_status, log>>

\* A handler that logs the failed lookup and lets the loop go on to the next
\* step.
LookupSkip ==
    /\ log' = "Error extracting endpoint details"
    /\ i' = i + 1
    /\ UNCHANGED <<heap, scenario, spec, frame, final_output, pc, run, outputs, exit_status>>

\* The handler of get_endpoint_details for a failed lookup: log, sys.exit(1).
LookupAbort == SysExit(LookupExitStatus, "Error extracting endpoint details")

\* steps.insert(0, merged_step) in place of append.
StepsInsertFirst(steps, merged_step) == <<merged_step>> \o steps

\* final_output["steps"].append(merged_step)
StepsAppend(steps, merged_step) == Append(steps, merged_step)

\* The adjustment without its `if not`: the recorded path params are always
\* replaced by the global map.
RecordGlobalPathParams_always(h, merged_step, global_path_params_override) ==
    [merged_step EXCEPT !.dynamic_overrides.path_params = global_path_params_override]

\* The adjustment of the recorded path params after a step is resolved: a
\* falsy dynamic_overrides.path_params is replaced by the global map.
RecordGlobalPathParams(h, merged_step, global_path_params_override) ==
    IF ~Truthy(h, merged_step.dynamic_overrides.path_params)
    THEN [merged_step EXCEPT !.dynamic_overrides.path_params = global_path_params_override]
    ELSE merged_step

\* One turn of the loop of process_scenario: resolve step i, adjust the
\* recorded path params, append.  A failed lookup ends the process.
process_scenario_step ==
    /\ pc = "loop"
    /\ i <= Len(scenario.steps)
    /\ LET r == process_test_step(heap, scenario.steps[i], spec,
                                  frame.global_base_url, frame.global_vars,
                                  frame.global_headers, frame.global_query_params,
                                  frame.global_path_params_override)
       IN IF ~r.ok THEN LookupAbort
          ELSE /\ heap' = r.h
               /\ final_output' =
                    [final_output EXCEPT !.steps =
                       StepsAppend(@, RecordGlobalPathParams(r.h, r.step,
                                                            frame.global_path_params_override))]
               /\ i' = i + 1
               /\ UNCHANGED <<scenario, spec, frame, pc, run, outputs, exit_status, log>>

\* process_scenario returns the plan and main serializes it.  The same
\* inputs are then resolved again, MaxRuns times in all, before the end.
process_scenario_return ==
    /\ pc = "loop"
    /\ i > Len(scenario.steps)
    /\ outputs' = Append(outputs, DumpPlan(heap, final_output))
    /\ IF run < MaxRuns
       THEN /\ run' = run + 1
            /\ pc' = "call"
            /\ UNCHANGED exit_status
       ELSE /\ pc' = "done"
            /\ exit_status' = <<0>>
            /\ UNCHANGED run
    /\ UNCHANGED <<heap, scenario, spec, frame, final_output, i, log>>

Next ==
    \/ load_yaml_file
    \/ load_openapi_spec
    \/ process_scenario_begin
    \/ process_scenario_step
    \/ process_scenario_return

Spec == Init /\ [][Next]_vars

\* ---------------------------------------------------------------- properties
\* The items of a mapping-valued field, {} when the field is missing or null.
Items(v) == IF IsDict(v) THEN heap[v.ref] ELSE EmptyDict

\* The steps of the plan built so far, by position.
PlanIndex == 1..Len(final_output.steps)

\* The schema of the operation a merged step was resolved against.
SchemaOf(ms) == JsonSchema([requestBody |-> ms.static_details.requestBody])

\* The deep merge of two serialized values: b laid over a.  An entry of a
\* survives unless b holds a scalar on its path or replaces it at its path.
MergedDump(a, b) ==
    b \cup {e \in a :
              \A n \in 1..Len(e[1]) : \A x \in b :
                 x[1] = SubSeq(e[1], 1, n) =>
                    (x[2] = Ref(0) /\ (n = Len(e[1]) => e[2] = Ref(0)))}

\* C1: every name of the schema's `required` list is a key of merged_payload,
\* in every merged step.
RequiredFieldCompleteness ==
    \A j \in PlanIndex :
        LET ms == final_output.steps[j]
            required == SchemaOf(ms).required
        IN \A k \in 1..Len(required) : required[k] \in DOMAIN heap[ms.merged_payload.ref]

\* A merged step whose payload got the placeholder for a required name that
\* neither the schema default nor the step supplied.
RequiredFieldFilled ==
    \E j \in PlanIndex :
        LET ms == final_output.steps[j]
            required == SchemaOf(ms).required
        IN \E k \in 1..Len(required) :
              /\ required[k] \notin DOMAIN Items(SchemaOf(ms).default)
              /\ required[k] \notin DOMAIN Items(scenario.steps[j].payload_override)
              /\ heap[ms.merged_payload.ref][required[k]] = PLACEHOLDER

\* The payload keys p of step j that the step sets to something other than
\* the placeholder while the global variables define p too.
StepAndGlobalPayloadKeys(j) ==
    {p \in DOMAIN Items(scenario.steps[j].payload_override) :
        /\ Items(scenario.steps[j].payload_override)[p] # PLACEHOLDER
        /\ p \in DOMAIN heap[frame.global_vars.ref]}

\* C2 as stated: where the step sets p (not to the placeholder) and the global
\* variables define p, merged_payload[p] equals the step's value.
GlobalPayloadNonClobbering ==
    \A j \in PlanIndex : \A p \in StepAndGlobalPayloadKeys(j) :
        LET mp == heap[final_output.steps[j].merged_payload.ref]
        IN /\ p \in DOMAIN mp
           /\ dumps(heap, mp[p]) = dumps(heap, Items(scenario.steps[j].payload_override)[p])

\* C2 as amended: merged_payload[p] is the step's value laid over the schema
\* default for p: the step's value itself, unless both are mappings, and then
\* their deep merge.  The global value is never used.
GlobalPayloadKeepsStepMerge ==
    \A j \in PlanIndex : \A p \in StepAndGlobalPayloadKeys(j) :
        LET mp == heap[final_output.steps[j].merged_payload.ref]
            sv == Items(scenario.steps[j].payload_override)[p]
            dv == DictGet(Items(SchemaOf(final_output.steps[j]).default), p)
        IN /\ p \in DOMAIN mp
           /\ dumps(heap, mp[p]) = IF IsDict(dv) /\ IsDict(sv)
                                   THEN MergedDump(dumps(heap, dv), dumps(heap, sv))
                                   ELSE dumps(heap, sv)

\* A merged step where the step, the schema default and the global variables
\* all define p, the first two as mappings with different keys.
StepAndDefaultMappingsMerged ==
    \E j \in PlanIndex : \E p \in StepAndGlobalPayloadKeys(j) :
        LET sv == Items(scenario.steps[j].payload_override)[p]
            dv == DictGet(Items(SchemaOf(final_output.steps[j]).default), p)
        IN /\ IsDict(sv) /\ IsDict(dv)
           /\ DOMAIN heap[sv.ref] # DOMAIN heap[dv.ref]
           /\ heap[frame.global_vars.ref][p] # sv

\* C3: a header both the step and the global headers define has the global
\* value in merged_headers.
UnconditionalHeaderOverlay ==
    \A j \in PlanIndex :
        \A H \in DOMAIN Items(scenario.steps[j].headers_override)
                 \cap DOMAIN heap[frame.global_headers.ref] :
            LET mh == heap[final_output.steps[j].merged_headers.ref]
            IN H \in DOMAIN mh /\ mh[H] = heap[frame.global_headers.ref][H]

\* A merged step with a header that the operation defaults, the step and the
\* global headers all define, with three different values.
HeaderDefinedThrice ==
    \E j \in PlanIndex :
        \E H \in DOMAIN Items(scenario.steps[j].headers_override)
                 \cap DOMAIN heap[frame.global_headers.ref] :
            LET dh == heap[final_output.steps[j].static_details.default_headers.ref]
                sv == Items(scenario.steps[j].headers_override)[H]
                gv == heap[frame.global_headers.ref][H]
            IN H \in DOMAIN dh /\ dh[H] # sv /\ sv # gv /\ dh[H] # gv

\* C4: a query parameter the global query parameters define has the global
\* value in merged_query_params.
UnconditionalQueryOverlay ==
    \A j \in PlanIndex :
        \A Q \in DOMAIN heap[frame.global_query_params.ref] :
            LET mq == heap[final_output.steps[j].merged_query_params.ref]
            IN Q \in DOMAIN mq /\ mq[Q] = heap[frame.global_query_params.ref][Q]

\* A merged step with a query parameter that has a schema default, a step
\* value and a global value, all different.
QueryParamDefinedThrice ==
    \E j \in PlanIndex :
        \E Q \in DOMAIN heap[frame.global_query_params.ref] :
            LET defaults == extract_default_query_params_items(
                                final_output.steps[j].static_details.parameters, EmptyDict)
                sq == Items(scenario.steps[j].query_params_override)
                gv == heap[frame.global_query_params.ref][Q]
            IN /\ Q \in DOMAIN defaults /\ Q \in DOMAIN sq
               /\ defaults[Q] # sq[Q] /\ sq[Q] # gv /\ defaults[Q] # gv

\* C5: merged_path_params has the keys of both maps; a key of the step has
\* the step's value, a key of the global map alone has the global value.
PathParamFloor ==
    \A j \in PlanIndex :
        LET mpp == heap[final_output.steps[j].merged_path_params.ref]
            sp == Items(scenario.steps[j].path_params_override)
            gp == heap[frame.global_path_params_override.ref]
        IN /\ DOMAIN mpp = DOMAIN sp \cup DOMAIN gp
           /\ \A k \in DOMAIN sp : mpp[k] = sp[k]
           /\ \A k \in DOMAIN gp \ DOMAIN sp : mpp[k] = gp[k]

\* A merged step where one path parameter comes from the global map alone and
\* another is defined by both, with different values.
PathParamFromBoth ==
    \E j \in PlanIndex :
        LET sp == Items(scenario.steps[j].path_params_override)
            gp == heap[frame.global_path_params_override.ref]
        IN /\ DOMAIN gp \ DOMAIN sp # {}
           /\ \E k \in DOMAIN sp \cap DOMAIN gp : sp[k] # gp[k]

\* C6: the plan has one step per scenario step, in declaration order: step j
\* of the plan has the endpoint of step j of the scenario, while the plan is
\* built and in every plan returned.
StableOutputOrder ==
    /\ \A j \in PlanIndex :
          /\ j <= Len(scenario.steps)
          /\ final_output.steps[j].endpoint = scenario.steps[j].endpoint
    /\ \A r \in 1..Len(outputs) :
          /\ Len(outputs[r].steps) = Len(scenario.steps)
          /\ \A j \in 1..Len(scenario.steps) :
                outputs[r].steps[j].endpoint = scenario.steps[j].endpoint

\* A returned plan whose consecutive steps have different endpoints.
ReturnedPlanWithTwoEndpoints ==
    /\ Len(outputs) >= 1
    /\ \E j \in 1..(Len(scenario.steps) - 1) :
          outputs[1].steps[j].endpoint # outputs[1].steps[j + 1].endpoint

\* C7: every call of process_scenario on the same loaded inputs returns the
\* same serialized plan as the first call.
Idempotence == \A r \in 1..Len(outputs) : outputs[r] = outputs[1]

\* A second call has returned a plan of several steps in which a required
\* field was filled in place with the placeholder.
SecondRunReturned ==
    /\ Len(outputs) >= 2
    /\ Len(scenario.steps) >= 2
    /\ \E j \in 1..Len(scenario.steps) :
          << <<"sku">>, PLACEHOLDER >> \in outputs[2].steps[j].merged_payload

\* The step is one whose endpoint is not a path of the specification or whose
\* method is not declared for that path.
UnknownToSpec(step) ==
    \/ step.endpoint.kind # "str"
    \/ step.endpoint.s \notin DOMAIN spec.paths
    \/ StepMethod(step).kind # "str"
    \/ Lower(StepMethod(step).s) \notin DOMAIN spec.paths[step.endpoint.s]

\* C8: resolving a step that is unknown to the specification ends the process
\* with a failure status; no merged step is added and no plan is returned.
UnknownEndpointIsFatal ==
    [][(pc = "loop" /\ i <= Len(scenario.steps) /\ UnknownToSpec(scenario.steps[i]))
         => /\ pc' = "exited"
            /\ exit_status' \notin {<<>>, <<0>>}
            /\ final_output' = final_output
            /\ outputs' = outputs]_vars

\* The process has ended at a step that is unknown to the specification.
ExitedAtUnknownStep ==
    /\ pc = "exited"
    /\ log = "Error extracting endpoint details"
    /\ i <= Len(scenario.steps)
    /\ UnknownToSpec(scenario.steps[i])

\* The lookup of step k of the scenario fails.
LookupFails(k) ==
    ~get_endpoint_details(spec, scenario.steps[k].endpoint, StepMethod(scenario.steps[k])).ok

\* C9: if the lookup of step k fails, no step from k on is ever in the plan
\* and no plan is ever returned.
NoPartialResults ==
    \A k \in 1..Len(scenario.steps) :
        LookupFails(k) => (Len(final_output.steps) < k /\ outputs = <<>>)

\* The process has ended at a failing step k > 1 with the earlier steps
\* resolved, and a later step that would resolve is left.
AbortedBetweenResolvableSteps ==
    /\ pc = "exited"
    /\ i > 1
    /\ Len(final_output.steps) = i - 1
    /\ \E k \in (i + 1)..Len(scenario.steps) : ~LookupFails(k)

\* C10: a lookup failure reaches the caller with an exit status that no load
\* failure uses.
DistinctErrorSurfacing ==
    (pc = "exited" /\ log = "Error extracting endpoint details")
        => exit_status \notin {<<LoadYamlExitStatus>>, <<LoadSpecExitStatus>>}

\* Step k of the scenario resolved on heap h, as the plan would record it and
\* as it serializes; <<>> when its lookup fails.
ResolveOn(h, k) ==
    Bind(process_test_step(h, scenario.steps[k], spec, frame.global_base_url, frame.global_vars, frame.global_headers, frame.global_query_params, frame.global_path_params_override),
         LAMBDA r :
         IF r.ok
         THEN <<DumpStep(r.h, RecordGlobalPathParams(r.h, r.step, frame.global_path_params_override))>>
         ELSE <<>>)

\* A step has been resolved and a different, resolvable step comes next; both
\* read a schema default with a nested mapping and non-empty global maps.
StepResolvedBeforeAnother ==
    /\ pc = "loop" /\ i >= 2 /\ i <= Len(scenario.steps)
    /\ Len(final_output.steps) = i - 1
    /\ ~LookupFails(i)
    /\ scenario.steps[i] # scenario.steps[i - 1]
    /\ \E p \in DOMAIN Items(SchemaOf(final_output.steps[1]).default) :
          IsDict(Items(SchemaOf(final_output.steps[1]).default)[p])
    /\ DOMAIN heap[frame.global_vars.ref] # {}
    /\ DOMAIN heap[frame.global_path_params_override.ref] # {}

RECURSIVE Reach(_, _)

\* The dict objects reachable from a value: the object itself and every
\* mapping nested in it.
Reach(h, v) ==
    IF ~IsDict(v) THEN {}
    ELSE {v.ref} \cup UNION {Reach(h, h[v.ref][k]) : k \in DOMAIN h[v.ref]}

\* The objects of the loaded Scenario and Specification: the global override
\* maps, every step's override maps, every operation's default_headers, schema
\* default and responses, with what is nested in them.
InputObjects ==
    UNION {Reach(heap, v) : v \in {scenario.global_variables_override,
                                    scenario.global_headers_override,
                                    scenario.global_query_parameters_override,
                                    scenario.global_path_params_override}}
    \cup UNION {Reach(heap, scenario.steps[j].path_params_override)
                  \cup Reach(heap, scenario.steps[j].payload_override)
                  \cup Reach(heap, scenario.steps[j].headers_override)
                  \cup Reach(heap, scenario.steps[j].query_params_override)
                : j \in 1..Len(scenario.steps)}
    \cup UNION {UNION {Reach(heap, spec.paths[e][m].default_headers)
                         \cup Reach(heap, spec.paths[e][m].requestBody.schema.default)
                         \cup Reach(heap, spec.paths[e][m].responses)
                       : m \in DOMAIN spec.paths[e]}
                : e \in DOMAIN spec.paths}

\* What the resolution of a step reads: the objects of the inputs and the
\* global override maps process_scenario holds.
ReadObjects ==
    InputObjects
    \cup UNION {Reach(heap, v) : v \in {frame.global_vars, frame.global_headers,
                                        frame.global_query_params,
                                        frame.global_path_params_override}}

\* C11: resolving step i changes nothing that the resolution of a step reads
\* (the Scenario, the Specification, the global override maps and every
\* object they hold), and leaves the outcome of resolving each step still to
\* come as it was, so that any order of resolution gives each step the same
\* merged step; and the step a turn of the loop adds to the plan is the
\* outcome of resolving it before that turn.
StepIndependence ==
    [][(pc = "loop" /\ i <= Len(scenario.steps))
         => /\ scenario' = scenario /\ spec' = spec /\ frame' = frame
            /\ \A a \in ReadObjects : heap'[a] = heap[a]
            /\ \A k \in (i + 1)..Len(scenario.steps) :
                  ResolveOn(heap', k) = ResolveOn(heap, k)
            /\ Len(final_output'.steps) = i
                  => <<DumpStep(heap', final_output'.steps[i])>> = ResolveOn(heap, i)]_vars

\* C12: from the call of process_scenario to its return or abort, the
\* Scenario, the Specification and every object they hold keep their values.
InputsNotMutated ==
    [][(pc \in {"call", "loop"})
         => /\ scenario' = scenario
            /\ spec' = spec
            /\ \A a \in InputObjects : heap'[a] = heap[a]]_vars

\* A plan was returned for a step that read a schema default lacking a
\* required name, so that the placeholder was written, with global variables,
\* headers and path params laid over the step as well.
ReturnedAfterInPlaceWrites ==
    /\ pc = "done"
    /\ \E j \in PlanIndex :
          /\ IsDict(SchemaOf(final_output.steps[j]).default)
          /\ "sku" \notin DOMAIN Items(SchemaOf(final_output.steps[j]).default)
          /\ heap[final_output.steps[j].merged_payload.ref]["sku"] = PLACEHOLDER
          /\ DOMAIN Items(scenario.steps[j].path_params_override) # {}
    /\ DOMAIN heap[frame.global_headers.ref] # {}
    /\ DOMAIN heap[frame.global_path_params_override.ref] # {}

\* The inputs are loaded and process_scenario is about to be called for the
\* first time: the objects of the inputs are the arguments recursive_merge is
\* applied to.  Two arguments come from at most two steps, so scenarios of up
\* to MaxArgumentSteps steps supply every pair.
InputsLoaded == pc = "call" /\ run = 1 /\ Len(scenario.steps) <= MaxArgumentSteps

\* C13: recursive_merge(base, override) leaves every existing object as it
\* was, base and what is nested in it included, and returns a new object; no
\* mapping in the result is a mapping of base, at any depth, unless override
\* itself holds that mapping (a value of override is stored as it is).
MergeNeverMutatesBase ==
    InputsLoaded =>
        \A a \in InputObjects : \A b \in InputObjects :
            LET r == recursive_merge(heap, Ref(a), Ref(b))
            IN /\ \A x \in 1..Len(heap) : r.h[x] = heap[x]
               /\ r.v.ref \notin 1..Len(heap)
               /\ Reach(r.h, r.v) \cap Reach(heap, Ref(a)) \subseteq Reach(heap, Ref(b))

\* Among the inputs are a base and an override that both hold a mapping under
\* the same key, with different items, so that the merge descends into a
\* mapping nested in base.
MergeDescendsIntoBase ==
    /\ InputsLoaded
    /\ \E a \in InputObjects : \E b \in InputObjects :
          \E k \in DOMAIN heap[a] \cap DOMAIN heap[b] :
             /\ IsDict(heap[a][k]) /\ IsDict(heap[b][k])
             /\ heap[heap[a][k].ref] # heap[heap[b][k].ref]
             /\ recursive_merge(heap, Ref(a), Ref(b)).v.ref > Len(heap)

\* C14: for every base, recursive_merge(base, None) serializes as
\* recursive_merge(base, {}) does and as base itself does, and is a deep copy:
\* a new object that shares no mapping with base.
MergeWithNullOverride ==
    InputsLoaded =>
        \A a \in InputObjects :
            LET null == recursive_merge(heap, Ref(a), None)
                empty == Alloc(heap, EmptyDict)
                none == recursive_merge(empty.h, Ref(a), empty.v)
            IN /\ dumps(null.h, null.v) = dumps(none.h, none.v)
               /\ dumps(null.h, null.v) = dumps(heap, Ref(a))
               /\ \A x \in 1..Len(heap) : null.h[x] = heap[x]
               /\ Reach(null.h, null.v) \cap Reach(heap, Ref(a)) = {}

\* Among the inputs is a base with a nested mapping, and merging None over it
\* gave a new object with the items of base.
NullOverrideOnNestedBase ==
    /\ InputsLoaded
    /\ \E a \in InputObjects :
          /\ \E k \in DOMAIN heap[a] : IsDict(heap[a][k])
          /\ LET null == recursive_merge(heap, Ref(a), None)
             IN null.v.ref > Len(heap) /\ DOMAIN null.h[null.v.ref] = DOMAIN heap[a]

\* C15: the result has the keys of both; a key of override holds the merge of
\* the two values when base has the key and both values are mappings, and the
\* override's value itself otherwise; a key of base alone keeps base's value.
MergeRulePerKey ==
    InputsLoaded =>
        \A a \in InputObjects : \A b \in InputObjects :
            LET r == recursive_merge(heap, Ref(a), Ref(b))
                result == r.h[r.v.ref]
            IN /\ DOMAIN result = DOMAIN heap[a] \cup DOMAIN heap[b]
               /\ \A k \in DOMAIN heap[b] :
                     IF k \in DOMAIN heap[a] /\ IsDict(heap[a][k]) /\ IsDict(heap[b][k])
                     THEN dumps(r.h, result[k])
                            = MergedDump(dumps(heap, heap[a][k]), dumps(heap, heap[b][k]))
                     ELSE result[k] = heap[b][k]
               /\ \A k \in DOMAIN heap[a] \ DOMAIN heap[b] :
                     dumps(r.h, result[k]) = dumps(heap, heap[a][k])

\* Among the inputs are pairs for every case of the rule: mapping over
\* mapping, scalar over mapping, mapping over scalar, and a key of base alone.
MergeCasesAmongInputs ==
    /\ InputsLoaded
    /\ \E a \in InputObjects : \E b \in InputObjects :
          /\ \E k \in DOMAIN heap[a] \cap DOMAIN heap[b] :
                /\ IsDict(heap[a][k]) /\ IsDict(heap[b][k])
                /\ DOMAIN heap[heap[a][k].ref] # DOMAIN heap[heap[b][k].ref]
          /\ DOMAIN heap[a] \ DOMAIN heap[b] # {}
    /\ \E a \in InputObjects : \E b \in InputObjects :
          \E k \in DOMAIN heap[a] \cap DOMAIN heap[b] :
             /\ IsDict(heap[a][k]) /\ ~IsDict(heap[b][k])
             /\ recursive_merge(heap, Ref(a), Ref(b)).v.ref > Len(heap)
             /\ recursive_merge(heap, Ref(b), Ref(a)).v.ref > Len(heap)

\* The operation of the specification that step j of the scenario names.
OperationOf(j) ==
    spec.paths[scenario.steps[j].endpoint.s][Lower(StepMethod(scenario.steps[j]).s)]

\* The default headers of that operation: its own default_headers, or the
\* two standard headers when it declares none.
OperationHeaders(j) ==
    IF OperationOf(j).default_headers = Absent
    THEN ("Content-Type" :> Str("application/json")) @@ ("Accept" :> Str("application/json"))
    ELSE heap[OperationOf(j).default_headers.ref]

\* The step sets {X-Trace: 0, Accept: text/plain} on an operation without
\* default_headers, under the global headers {X-Trace: 1}.
TraceExample(j) ==
    /\ OperationOf(j).default_headers = Absent
    /\ Items(scenario.steps[j].headers_override)
         = ("X-Trace" :> Str("0")) @@ ("Accept" :> Str("text/plain"))
    /\ heap[frame.global_headers.ref] = ("X-Trace" :> Str("1"))

\* C16: merged_headers has the keys of the three layers; a header the global
\* map does not define has the step's value when the step defines it and the
\* operation's default otherwise; the X-Trace example merges to exactly
\* {Content-Type: application/json, Accept: text/plain, X-Trace: 1}.
HeaderPrecedence ==
    \A j \in PlanIndex :
        LET mh == heap[final_output.steps[j].merged_headers.ref]
            sh == Items(scenario.steps[j].headers_override)
            gh == heap[frame.global_headers.ref]
        IN /\ DOMAIN mh = DOMAIN OperationHeaders(j) \cup DOMAIN sh \cup DOMAIN gh
           /\ \A H \in DOMAIN mh \ DOMAIN gh :
                 mh[H] = IF H \in DOMAIN sh THEN sh[H] ELSE OperationHeaders(j)[H]
           /\ TraceExample(j)
                 => mh = ("Content-Type" :> Str("application/json"))
                         @@ ("Accept" :> Str("text/plain")) @@ ("X-Trace" :> Str("1"))

\* The X-Trace example is a step of the plan.
TraceExampleResolved == \E j \in PlanIndex : TraceExample(j)

\* C17: the plan's base_url is the scenario's base_url_override when that is
\* a non-empty string, else the url of the first server of the specification,
\* else ""; and the process never ends between the loading of the inputs and
\* the creation of the plan, whatever the servers are.
SoftBaseUrl ==
    /\ "base_url" \in DOMAIN final_output =>
          final_output.base_url =
             IF scenario.base_url_override.kind = "str" /\ scenario.base_url_override.s # ""
             THEN scenario.base_url_override
             ELSE IF spec.servers # <<>> /\ spec.servers[1].url # Absent
                  THEN spec.servers[1].url
                  ELSE Str("")
    /\ (pc = "exited" /\ "base_url" \notin DOMAIN final_output) =>
          log \in {"Error loading YAML file", "Error loading OpenAPI spec"}

\* A plan was created from an empty base_url_override and a specification
\* without servers: its base_url is "".
PlanWithoutAnyBaseUrl ==
    /\ pc \in {"loop", "done"}
    /\ scenario.base_url_override = Str("")
    /\ spec.servers = <<>>
    /\ final_output.base_url = Str("")

\* What the plan records as dynamic_overrides.path_params for step j: the
\* step's own map when it is non-empty, else the global map.
RecordedPathParams(j) ==
    IF Truthy(heap, scenario.steps[j].path_params_override)
    THEN scenario.steps[j].path_params_override
    ELSE frame.global_path_params_override

\* C18: in the plan, dynamic_overrides.path_params of a step is the global
\* path-params map when the step's path_params_override is absent or empty
\* and the step's map itself otherwise, also in every plan returned; apart
\* from that field the step a turn of the loop adds is what process_test_step
\* gave, merged_path_params included, and the steps added before it stay as
\* they were.
PathParamsRecord ==
    /\ [](/\ \A j \in PlanIndex :
               final_output.steps[j].dynamic_overrides.path_params = RecordedPathParams(j)
          /\ \A n \in 1..Len(outputs) : \A j \in 1..Len(outputs[n].steps) :
               outputs[n].steps[j].dynamic_overrides.path_params
                  = dumps(heap, RecordedPathParams(j)))
    /\ [][(pc = "loop" /\ Len(final_output'.steps) = i)
            => /\ Bind(process_test_step(heap, scenario.steps[i], spec, frame.global_base_url, frame.global_vars, frame.global_headers, frame.global_query_params, frame.global_path_params_override),
                       LAMBDA r :
                       DumpStep(heap', final_output'.steps[i])
                         = DumpStep(r.h, [r.step EXCEPT !.dynamic_overrides.path_params
                                                          = RecordedPathParams(i)]))
               /\ \A j \in 1..(i - 1) :
                     DumpStep(heap', final_output'.steps[j])
                        = DumpStep(heap, final_output.steps[j])]_vars

\* A plan was returned in which one step had no path params of its own and
\* another had some, under a non-empty global map that differs from them.
PathParamsRecordedBothWays ==
    /\ Len(outputs) >= 1
    /\ DOMAIN heap[frame.global_path_params_override.ref] # {}
    /\ \E j \in PlanIndex : ~Truthy(heap, scenario.steps[j].path_params_override)
    /\ \E j \in PlanIndex :
          /\ Truthy(heap, scenario.steps[j].path_params_override)
          /\ heap[scenario.steps[j].path_params_override.ref]
               # heap[frame.global_path_params_override.ref]
          /\ heap[final_output.steps[j].merged_path_params.ref]
               # heap[scenario.steps[j].path_params_override.ref]

\* The required names of step j's schema that neither the schema default nor
\* the step's payload_override supplies.
MissingRequired(j) ==
    {p \in {SchemaOf(final_output.steps[j]).required[k]
               : k \in 1..Len(SchemaOf(final_output.steps[j]).required)} :
        /\ p \notin DOMAIN Items(SchemaOf(final_output.steps[j]).default)
        /\ p \notin DOMAIN Items(scenario.steps[j].payload_override)}

\* C19: a required name that neither the schema default nor the step supplies
\* has the global variable's value in merged_payload when the global variables
\* define it and it is a declared property, and the placeholder otherwise.
RequiredFilledFromGlobal ==
    \A j \in PlanIndex : \A p \in MissingRequired(j) :
        LET mp == heap[final_output.steps[j].merged_payload.ref]
            gv == heap[frame.global_vars.ref]
        IN /\ p \in DOMAIN mp
           /\ mp[p] = IF p \in DOMAIN gv /\ p \in DOMAIN SchemaOf(final_output.steps[j]).properties
                      THEN gv[p]
                      ELSE PLACEHOLDER

\* A merged step with a missing required name that is a declared property
\* and that the global variables define: the payload holds the global value.
MissingRequiredHasGlobalValue ==
    \E j \in PlanIndex : \E p \in MissingRequired(j) :
        /\ p \in DOMAIN heap[frame.global_vars.ref]
        /\ p \in DOMAIN SchemaOf(final_output.steps[j]).properties
        /\ heap[frame.global_vars.ref][p] # PLACEHOLDER
        /\ heap[final_output.steps[j].merged_payload.ref][p] = heap[frame.global_vars.ref][p]

\* What merged_payload holds under p without the global variables: the step's
\* value laid over the schema default's, or the placeholder for a required
\* name that neither supplies; <<>> when p is not a key at all.
PayloadWithoutGlobals(j, p) ==
    LET dv == DictGet(Items(SchemaOf(final_output.steps[j]).default), p)
        sv == DictGet(Items(scenario.steps[j].payload_override), p)
    IN IF sv # Absent
       THEN <<IF IsDict(dv) /\ IsDict(sv) THEN MergedDump(dumps(heap, dv), dumps(heap, sv))
              ELSE dumps(heap, sv)>>
       ELSE IF dv # Absent THEN <<dumps(heap, dv)>>
       ELSE IF p \in MissingRequired(j) THEN <<dumps(heap, PLACEHOLDER)>>
       ELSE <<>>

\* C20: a key of the global variables that is not a property of the schema
\* is in merged_payload exactly when the defaults, the step or the required
\* list put it there, and with the value they gave it.
GlobalsOnlyThroughProperties ==
    \A j \in PlanIndex :
        \A g \in DOMAIN heap[frame.global_vars.ref] \ DOMAIN SchemaOf(final_output.steps[j]).properties :
            LET mp == heap[final_output.steps[j].merged_payload.ref]
            IN PayloadWithoutGlobals(j, g)
                 = IF g \in DOMAIN mp THEN <<dumps(heap, mp[g])>> ELSE <<>>

\* A merged step whose payload holds the placeholder under a required name
\* that is no declared property, while the global variables define the name
\* with another value.
UndeclaredGlobalKept ==
    \E j \in PlanIndex :
        \E g \in MissingRequired(j) \ DOMAIN SchemaOf(final_output.steps[j]).properties :
            /\ g \in DOMAIN heap[frame.global_vars.ref]
            /\ heap[frame.global_vars.ref][g] # PLACEHOLDER
            /\ heap[final_output.steps[j].merged_payload.ref][g] = PLACEHOLDER

\* The `required` lists of the schemas the loaded Specification declares.
RequiredLists ==
    UNION {{spec.paths[e][m].requestBody.schema.required : m \in DOMAIN spec.paths[e]}
           : e \in DOMAIN spec.paths}

\* The names of a `required` list.
Names(required) == {required[n] : n \in 1..Len(required)}

\* C21: ensure_required_fields(payload, required) adds the key "<value>" for
\* exactly the required names the payload lacks and changes nothing else: a
\* key the payload holds keeps its value, a null or empty one included, and
\* no other object is touched.
RequiredFillOnlyAdds ==
    InputsLoaded =>
        \A a \in InputObjects : \A required \in RequiredLists :
            LET h2 == ensure_required_fields(heap, Ref(a), required)
            IN /\ Len(h2) = Len(heap)
               /\ \A x \in (1..Len(heap)) \ {a} : h2[x] = heap[x]
               /\ DOMAIN h2[a] = DOMAIN heap[a] \cup Names(required)
               /\ \A k \in DOMAIN heap[a] : h2[a][k] = heap[a][k]
               /\ \A k \in Names(required) \ DOMAIN heap[a] : h2[a][k] = PLACEHOLDER

\* Among the inputs is a payload that holds one required name with null and
\* another with the empty string, and a payload that lacks a required name.
RequiredNamesNullAndEmpty ==
    /\ InputsLoaded
    /\ \E required \in RequiredLists :
          /\ \E a \in InputObjects :
                \E k \in Names(required) : \E e \in Names(required) :
                   /\ k \in DOMAIN heap[a] /\ heap[a][k] = None
                   /\ e \in DOMAIN heap[a] /\ heap[a][e] = Str("")
                   /\ ensure_required_fields(heap, Ref(a), required) = heap
          /\ \E b \in InputObjects :
                \E k \in Names(required) \ DOMAIN heap[b] :
                   ensure_required_fields(heap, Ref(b), required)[b][k] = PLACEHOLDER

\* C22: the default headers recorded for a step are the operation's own
\* default_headers object when the operation has the field, an empty one
\* included, and otherwise exactly {Content-Type: application/json,
\* Accept: application/json}; a header of merged_headers that neither the
\* step nor the global headers define comes from that one source.
OwnOrFallbackHeaders ==
    \A j \in PlanIndex :
        LET dh == final_output.steps[j].static_details.default_headers
            mh == heap[final_output.steps[j].merged_headers.ref]
            own == OperationOf(j).default_headers
            layered == DOMAIN Items(scenario.steps[j].headers_override)
                         \cup DOMAIN heap[frame.global_headers.ref]
        IN /\ IsDict(dh)
           /\ own # Absent => dh = own
           /\ own = Absent
                => /\ DOMAIN heap[dh.ref] = {"Content-Type", "Accept"}
                   /\ heap[dh.ref]["Content-Type"] = Str("application/json")
                   /\ heap[dh.ref]["Accept"] = Str("application/json")
           /\ DOMAIN mh \ layered = DOMAIN heap[dh.ref] \ layered
           /\ \A k \in DOMAIN mh \ layered : mh[k] = heap[dh.ref][k]

\* A merged step of an operation whose own default_headers lack Content-Type,
\* with no Content-Type from the step or the global headers: merged_headers
\* has no Content-Type, and the operation's X-Trace or Accept is in it.
OwnHeadersWithoutContentType ==
    \E j \in PlanIndex :
        /\ OperationOf(j).default_headers # Absent
        /\ DOMAIN heap[OperationOf(j).default_headers.ref] # {}
        /\ "Content-Type" \notin DOMAIN heap[final_output.steps[j].merged_headers.ref]
        /\ \E k \in DOMAIN heap[OperationOf(j).default_headers.ref] :
              /\ k \notin DOMAIN heap[frame.global_headers.ref]
              /\ k \notin DOMAIN Items(scenario.steps[j].headers_override)
              /\ heap[final_output.steps[j].merged_headers.ref][k]
                   = heap[OperationOf(j).default_headers.ref][k]

\* C23: only the schema's top-level `default` feeds the payload: the keys of
\* merged_payload are those of that default, of the step's payload, of the
\* required list and of the global variables that are properties, and a
\* property with a `default` of its own that none of the first two supplies
\* is either missing, or holds the placeholder or the global variable, never
\* the property's default.
DefaultPayloadTopLevelOnly ==
    \A j \in PlanIndex :
        LET schema == SchemaOf(final_output.steps[j])
            mp == heap[final_output.steps[j].merged_payload.ref]
            gv == heap[frame.global_vars.ref]
            supplied == DOMAIN Items(schema.default)
                          \cup DOMAIN Items(scenario.steps[j].payload_override)
        IN /\ DOMAIN mp = supplied \cup Names(schema.required)
                            \cup (DOMAIN gv \cap DOMAIN schema.properties)
           /\ \A p \in DOMAIN schema.properties \ supplied :
                 (schema.properties[p] # Absent /\ p \in DOMAIN mp)
                    => mp[p] = IF p \in DOMAIN gv THEN gv[p] ELSE PLACEHOLDER

\* A merged step whose schema has a top-level default and a property, outside
\* that default and the step's payload, with a default of its own: the
\* property is not a key of merged_payload.
PropertyDefaultNotCollected ==
    \E j \in PlanIndex :
        LET schema == SchemaOf(final_output.steps[j])
        IN /\ IsDict(schema.default)
           /\ \E p \in DOMAIN schema.properties :
                 /\ schema.properties[p] # Absent
                 /\ p \notin DOMAIN Items(schema.default)
                 /\ p \notin DOMAIN heap[final_output.steps[j].merged_payload.ref]

\* C24: extract_default_query_params(parameters) has one entry, name ->
\* default, for exactly the parameters located in the query that declare a
\* schema default; a query parameter of merged_query_params that neither
\* the step nor the global query map defines is one of these entries.
QueryDefaultsExact ==
    \A j \in PlanIndex :
        LET parameters == final_output.steps[j].static_details.parameters
            r == extract_default_query_params(heap, parameters)
            defaults == r.h[r.v.ref]
            mq == heap[final_output.steps[j].merged_query_params.ref]
            layered == DOMAIN Items(scenario.steps[j].query_params_override)
                         \cup DOMAIN heap[frame.global_query_params.ref]
        IN /\ DOMAIN defaults
                = {parameters[n].name :
                     n \in {m \in 1..Len(parameters) :
                              parameters[m].in = "query" /\ parameters[m].default # Absent}}
           /\ \A n \in 1..Len(parameters) :
                 parameters[n].name \in DOMAIN defaults
                    => defaults[parameters[n].name] = parameters[n].default
           /\ DOMAIN mq \ layered = DOMAIN defaults \ layered
           /\ \A k \in DOMAIN mq \ layered : mq[k] = defaults[k]

\* A merged step of an operation that declares a query parameter with a
\* default, one without, and a header and a path parameter with defaults:
\* merged_query_params holds the first with its default and none of the others.
QueryDefaultAmongOtherParameters ==
    \E j \in PlanIndex :
        LET parameters == final_output.steps[j].static_details.parameters
            mq == heap[final_output.steps[j].merged_query_params.ref]
        IN \E a, b, c, d \in 1..Len(parameters) :
              /\ parameters[a].in = "query" /\ parameters[a].default # Absent
              /\ parameters[b].in = "query" /\ parameters[b].default = Absent
              /\ parameters[c].in = "header" /\ parameters[c].default # Absent
              /\ parameters[d].in = "path" /\ parameters[d].default # Absent
              /\ parameters[a].name \in DOMAIN mq
              /\ mq[parameters[a].name] = parameters[a].default
              /\ {parameters[b].name, parameters[c].name, parameters[d].name}
                   \cap DOMAIN mq = {}

\* C25: a step without `method` is resolved against the path's post
\* operation and recorded with method "POST"; a step with a method is
\* recorded with that method in upper case.
MethodDefaultAndCase ==
    \A j \in PlanIndex :
        LET method == scenario.steps[j].method
            ms == final_output.steps[j]
            declared == spec.paths[scenario.steps[j].endpoint.s]
        IN /\ method = Absent
                => /\ ms.method = Str("POST")
                   /\ "post" \in DOMAIN declared
                   /\ ms.static_details.requestBody = declared["post"].requestBody
                   /\ ms.static_details.parameters = declared["post"].parameters.list
           /\ (method # Absent /\ method.s \in {"POST", "post", "Post"})
                => /\ ms.method = Str("POST")
                   /\ ms.static_details.requestBody = declared["post"].requestBody
           /\ (method # Absent /\ method.s \in {"GET", "get"})
                => /\ ms.method = Str("GET")
                   /\ ms.static_details.requestBody = declared["get"].requestBody
           /\ ms.method.s \in {"POST", "GET"}

\* A plan with a step that names no method and a step whose method is
\* written in lower or mixed case.
MethodAbsentAndLowerCase ==
    /\ \E j \in PlanIndex : scenario.steps[j].method = Absent
    /\ \E j \in PlanIndex :
          /\ scenario.steps[j].method # Absent
          /\ scenario.steps[j].method.s \in {"post", "Post"}
          /\ final_output.steps[j].method = Str("POST")

\* C26: the lookup of a step fails only when the endpoint is no path of the
\* specification or the path does not declare the method; a declared
\* operation is found whatever it holds, an operation with no field included.
LookupFailsOnlyOnAbsence ==
    (pc = "exited" /\ log = "Error extracting endpoint details")
        => UnknownToSpec(scenario.steps[i])

\* C27: in the plan under construction and in every returned plan,
\* merged_path_params of a step is recursive_merge of the plan's
\* global_path_params_override and the step's recorded
\* dynamic_overrides.path_params, whether the record is the step's own map or
\* the global map written in its place.
PathParamsTraceable ==
    /\ \A j \in PlanIndex :
          LET ms == final_output.steps[j]
              r == recursive_merge(heap, final_output.global_path_params_override,
                                   ms.dynamic_overrides.path_params)
          IN dumps(heap, ms.merged_path_params) = dumps(r.h, r.v)
    /\ \A n \in 1..Len(outputs) : \A j \in 1..Len(outputs[n].steps) :
          outputs[n].steps[j].merged_path_params
             = MergedDump(outputs[n].global_path_params_override,
                          outputs[n].steps[j].dynamic_overrides.path_params)

\* A returned plan with non-empty global path params, a step recorded with
\* the global map in place of its own empty one, and a step whose own map
\* sets a key of the global map to another value.
ReturnedPlanWithBothPathRecords ==
    /\ pc = "done"
    /\ Len(outputs) >= 1
    /\ DOMAIN heap[final_output.global_path_params_override.ref] # {}
    /\ \E j \in PlanIndex :
          /\ ~Truthy(heap, scenario.steps[j].path_params_override)
          /\ final_output.steps[j].dynamic_overrides.path_params
               = final_output.global_path_params_override
    /\ \E j \in PlanIndex :
          \E k \in DOMAIN Items(scenario.steps[j].path_params_override)
                     \cap DOMAIN heap[final_output.global_path_params_override.ref] :
             /\ heap[scenario.steps[j].path_params_override.ref][k]
                  # heap[final_output.global_path_params_override.ref][k]
             /\ heap[final_output.steps[j].merged_path_params.ref][k]
                  = heap[scenario.steps[j].path_params_override.ref][k]

\* C28: a key of the schema default whose default value is not "<value>"
\* and that the step's payload does not hold keeps the default's value in
\* merged_payload, whatever the global variables define.
SpecDefaultKept ==
    \A j \in PlanIndex :
        LET default == Items(SchemaOf(final_output.steps[j]).default)
            mp == heap[final_output.steps[j].merged_payload.ref]
        IN \A p \in DOMAIN default \ DOMAIN Items(scenario.steps[j].payload_override) :
              default[p] # PLACEHOLDER
                 => /\ p \in DOMAIN mp
                    /\ dumps(heap, mp[p]) = dumps(heap, default[p])

\* A merged step with a key that the schema default defines, the step's
\* payload lacks, and the global variables define with another value while
\* the key is a property of the schema.
DefaultAgainstGlobalVariable ==
    \E j \in PlanIndex :
        LET schema == SchemaOf(final_output.steps[j])
            gv == heap[frame.global_vars.ref]
        IN \E p \in (DOMAIN Items(schema.default) \cap DOMAIN gv \cap DOMAIN schema.properties)
                       \ DOMAIN Items(scenario.steps[j].payload_override) :
              /\ Items(schema.default)[p] # PLACEHOLDER
              /\ gv[p] # Items(schema.default)[p]
              /\ heap[final_output.steps[j].merged_payload.ref][p] # gv[p]

\* C29: a step's base_url_override is only recorded: dynamic_overrides.base_url
\* is that override, "" when the step has none, and static_details.base_url
\* is the plan's base_url for every step, in the plan under construction and
\* in every returned plan.
StepBaseUrlRecordOnly ==
    /\ \A j \in PlanIndex :
          LET ms == final_output.steps[j]
              own == scenario.steps[j].base_url_override
          IN /\ ms.static_details.base_url = final_output.base_url
             /\ ms.dynamic_overrides.base_url = IF own = Absent THEN Str("") ELSE own
    /\ \A n \in 1..Len(outputs) : \A j \in 1..Len(outputs[n].steps) :
          outputs[n].steps[j].static_details.base_url = outputs[n].base_url

\* A returned plan with a step whose base_url_override differs from the
\* plan's base_url, and a step without one.
ReturnedPlanWithStepBaseUrl ==
    /\ pc = "done"
    /\ Len(outputs) >= 1
    /\ \E j \in PlanIndex :
          /\ scenario.steps[j].base_url_override # Absent
          /\ scenario.steps[j].base_url_override # final_output.base_url
          /\ final_output.steps[j].dynamic_overrides.base_url
               = scenario.steps[j].base_url_override
    /\ \E j \in PlanIndex : scenario.steps[j].base_url_override = Absent

\* C30: for an operation with no requestBody, no application/json content or
\* no schema under it, merged_payload serializes as the step's payload, {}
\* when the step has none: no placeholder is added and no global variable
\* injected.
SchemalessPayloadIsStepPayload ==
    \A j \in PlanIndex :
        LET body == OperationOf(j).requestBody
            own == scenario.steps[j].payload_override
        IN (~body.has \/ ~body.json \/ body.schema = NoSchema)
              => dumps(heap, final_output.steps[j].merged_payload)
                   = IF Truthy(heap, own) THEN dumps(heap, own) ELSE {<<<<>>, Ref(0)>>}

\* A plan of a scenario whose global variables are not empty, with a step
\* that carries a payload to an operation without requestBody or with
\* schema-less JSON content, and a step resolved against an operation whose
\* only content is not application/json and has a schema with required names.
SchemalessOperationsResolved ==
    /\ \E j \in PlanIndex :
          /\ Truthy(heap, scenario.steps[j].payload_override)
          /\ \/ ~OperationOf(j).requestBody.has
             \/ OperationOf(j).requestBody.json /\ OperationOf(j).requestBody.schema = NoSchema
    /\ \E j \in PlanIndex :
          /\ OperationOf(j).requestBody.has
          /\ ~OperationOf(j).requestBody.json
          /\ OperationOf(j).requestBody.schema.required # <<>>
          /\ DOMAIN heap[final_output.steps[j].merged_payload.ref] = {}
    /\ DOMAIN heap[frame.global_vars.ref] # {}

====
